---------------------------- MODULE Spec2Model ----------------------------
(***************************************************************************)
(* A model of the transfer pipeline of SaveAny-Bot (core/utils.go) and of  *)
(* the configuration it reads (config package).                            *)
(*                                                                         *)
(*   Spec        one processPhoto transfer: fetch, stage, save with retry, *)
(*               deferred cache cleanup, the clock and ReloadConfig        *)
(*   SpecFile    one TaskLocalFile written by sequential WriteAt calls,    *)
(*               with the progress callback of buildProgressCallback       *)
(*   SpecConc    one TaskLocalFile written by parallel download workers,   *)
(*               WriteAt taken statement by statement (it holds no lock)   *)
(*   SpecPolicy  the pure functions getTaskThreads/getProgressUpdateCount  *)
(*   SpecCancel  one processPhoto transfer whose context may be cancelled, *)
(*               each Save call taken as a call and a return               *)
(*   SpecExt     fixTaskFileExt on one task                                *)
(*   SpecConfig  config.Init, Set and ReloadConfig                         *)
(***************************************************************************)
EXTENDS Integers, Sequences, FiniteSets, TLC

VARIABLES
    \* config.Cfg
    cfgRetry, cfgTTL, cfgThreads,
    \* processPhoto / saveFileWithRetry / cleanCacheFile
    pc, i, failsInit, failsLeft, saveCalls, saveRes, retryAtEntry, retryStable,
    procRes, fileExists, staged, cleanCalls, cleanTTL, cleanClock, rmDeadline,
    purgeErr, clock,
    \* TaskLocalFile and the progress callback bound to it
    size, chunks, hasCallback, done, nextCallbackAt, callbackInterval,
    totalWritten, maxChunk, writeErrs, cbCalls, emitted, lastEmit, offTick, nonMono,
    \* download workers inside WriteAt
    wpc, wn, wtmp,
    \* inputs and results of the pure policy functions
    sizeA, sizeB, threadsA, threadsB, countA, countB,
    \* task.Ctx
    cancelled, lateCalls,
    \* the task handed to fixTaskFileExt
    fileName, storagePath, taskSize, origTask, sniff, fixed,
    \* viper's settings, Cfg.Workers and what config.Init returned
    vipWorkers, vipRetry, cfgWorkers, cfgState

cfgVars  == <<cfgRetry, cfgTTL, cfgThreads>>
pipeVars == <<pc, i, failsInit, failsLeft, saveCalls, saveRes, retryAtEntry, retryStable,
              procRes, fileExists, staged, cleanCalls, cleanTTL, cleanClock, rmDeadline,
              purgeErr, clock>>
fileVars == <<size, chunks, hasCallback, done, nextCallbackAt, callbackInterval,
              totalWritten, maxChunk, writeErrs, cbCalls, emitted, lastEmit, offTick, nonMono>>
workVars == <<wpc, wn, wtmp>>
polVars  == <<sizeA, sizeB, threadsA, threadsB, countA, countB>>
ctxVars  == <<cancelled, lateCalls>>
extVars  == <<fileName, storagePath, taskSize, origTask, sniff, fixed>>
vipVars  == <<vipWorkers, vipRetry, cfgWorkers, cfgState>>
vars     == <<cfgVars, pipeVars, fileVars, workVars, polVars, ctxVars, extVars, vipVars>>

---------------------------------------------------------------------------
(* Bounds of the model *)

MaxRetry == 2
MaxFails == 3
MaxTTL == 2
MaxClock == 3
MaxThreads == 4
MaxOverrun == 2
MaxWriteErrs == 1
NumWorkers == 2

(* Program constants *)

MiB == 1024 * 1024
CallbackTimes == 100

\* Values ReloadConfig can install: viper.Unmarshal validates nothing.
RetryValues == -1 .. MaxRetry
\* cache_ttl in seconds; the default 3600 is scaled into 1..MaxTTL.
TTLValues == -1 .. MaxTTL
ThreadCaps == 1 .. MaxThreads

---------------------------------------------------------------------------
(* config: Init and ReloadConfig *)

\* Init returns an error unless Workers >= 1 and Retry >= 1.
InitValid(retry) == ~(retry < 1)

InitConfig ==
    /\ cfgRetry \in {r \in RetryValues : InitValid(r)}
    /\ cfgTTL \in TTLValues
    /\ cfgThreads = 1

\* The configuration of a specification that does not read it.
ConfigOff == cfgRetry = 1 /\ cfgTTL = 0 /\ cfgThreads = 1

---------------------------------------------------------------------------
(* saveFileWithRetry *)

\* for i := 0; i <= config.Cfg.Retry; i++
LoopContinues_lt(idx, retry) == idx < retry
LoopContinues(idx, retry) == idx <= retry

\* if i == config.Cfg.Retry { return fmt.Errorf(...) }
LastAttempt(idx, retry) == idx = retry

\* The storage stub: Save fails while failures are left, then succeeds.
SaveFails == failsLeft > 0

---------------------------------------------------------------------------
(* cleanCacheFile *)

\* if config.Cfg.Temp.CacheTTL > 0 { RmFileAfter } else { os.Remove }
DelayedPurge_ge(ttl) == ttl >= 0
DelayedPurge(ttl) == ttl > 0

\* common.RmFileAfter(path, ttl seconds): a timer that removes the file.
RmFileAfter(now, ttl) == now + ttl

NoTimer == -1

NotComputed == -1

---------------------------------------------------------------------------
(* The idle values of the parts a specification does not use *)

PipeOff ==
    /\ pc = "off" /\ i = 0 /\ failsInit = 0 /\ failsLeft = 0 /\ saveCalls = 0
    /\ saveRes = "none" /\ retryAtEntry = 0 /\ retryStable = TRUE /\ procRes = "none"
    /\ fileExists = FALSE /\ staged = FALSE /\ cleanCalls = 0 /\ cleanTTL = 0
    /\ cleanClock = 0 /\ rmDeadline = NoTimer /\ purgeErr = FALSE /\ clock = 0

FileOff ==
    /\ size = 0 /\ chunks = {} /\ hasCallback = FALSE /\ done = 0
    /\ nextCallbackAt = 0 /\ callbackInterval = 0 /\ totalWritten = 0 /\ maxChunk = 0
    /\ writeErrs = 0 /\ cbCalls = 0 /\ emitted = 0 /\ lastEmit = -1
    /\ offTick = FALSE /\ nonMono = FALSE

WorkOff == wpc = <<>> /\ wn = <<>> /\ wtmp = <<>>

PolOff ==
    /\ sizeA = 0 /\ sizeB = 0 /\ threadsA = NotComputed /\ threadsB = NotComputed
    /\ countA = NotComputed /\ countB = NotComputed

CtxOff == cancelled = FALSE /\ lateCalls = 0

ExtOff ==
    /\ fileName = <<>> /\ storagePath = <<>> /\ taskSize = 0
    /\ origTask = <<>> /\ sniff = <<>> /\ fixed = FALSE

VipOff == vipWorkers = 1 /\ vipRetry = 1 /\ cfgWorkers = 1 /\ cfgState = "off"

---------------------------------------------------------------------------
(* Spec: one processPhoto transfer *)

Init ==
    /\ InitConfig
    /\ pc = "idle" /\ i = 0
    /\ failsInit \in 0 .. MaxFails /\ failsLeft = failsInit
    /\ saveCalls = 0 /\ saveRes = "none" /\ retryAtEntry = 0 /\ retryStable = TRUE
    /\ procRes = "none" /\ fileExists = FALSE /\ staged = FALSE
    /\ cleanCalls = 0 /\ cleanTTL = 0 /\ cleanClock = 0 /\ rmDeadline = NoTimer
    /\ purgeErr = FALSE /\ clock = 0
    /\ FileOff /\ WorkOff /\ PolOff /\ CtxOff /\ ExtOff /\ VipOff

\* bot.Client.API().UploadGetFile(task.Ctx, ...) and the type assertion on its
\* result; a read under a cancelled context returns the context's error.
GetFile ==
    /\ pc = "idle"
    /\ \E outcome \in {"ok", "error", "unexpected"} :
         /\ cancelled => outcome = "error"
         /\ IF outcome = "ok"
              THEN pc' = "fetched" /\ procRes' = procRes
              ELSE pc' = "done" /\ procRes' = "err"
    /\ UNCHANGED <<i, failsInit, failsLeft, saveCalls, saveRes, retryAtEntry, retryStable,
                   fileExists, staged, cleanCalls, cleanTTL, cleanClock, rmDeadline,
                   purgeErr, clock>>
    /\ UNCHANGED <<cfgVars, fileVars, workVars, polVars, ctxVars, extVars, vipVars>>

\* os.WriteFile(cachePath, ...): it may fail before creating the file, or after
\* (a partial file stays on disk). Only on success is the cleanup deferred and
\* saveFileWithRetry entered.
WriteFile ==
    /\ pc = "fetched"
    /\ \E outcome \in {"ok", "open_failed", "write_failed"} :
         /\ fileExists' = (outcome # "open_failed")
         /\ staged' = (outcome # "open_failed")
         /\ IF outcome = "ok"
              THEN /\ pc' = "saving" /\ procRes' = procRes
                   /\ i' = 0 /\ retryAtEntry' = cfgRetry /\ retryStable' = TRUE
              ELSE /\ pc' = "done" /\ procRes' = "err"
                   /\ UNCHANGED <<i, retryAtEntry, retryStable>>
    /\ UNCHANGED <<failsInit, failsLeft, saveCalls, saveRes, cleanCalls, cleanTTL,
                   cleanClock, rmDeadline, purgeErr, clock>>
    /\ UNCHANGED <<cfgVars, fileVars, workVars, polVars, ctxVars, extVars, vipVars>>

\* One turn of the retry loop: the loop test, one call of taskStorage.Save, and
\* what the loop does with its result.
SaveAttempt ==
    /\ pc = "saving"
    /\ LoopContinues(i, cfgRetry)
    /\ saveCalls' = saveCalls + 1
    /\ IF SaveFails
         THEN /\ failsLeft' = failsLeft - 1
              /\ IF LastAttempt(i, cfgRetry)
                   THEN saveRes' = "err" /\ pc' = "returning" /\ i' = i
                   ELSE saveRes' = saveRes /\ pc' = pc /\ i' = i + 1
         ELSE /\ failsLeft' = failsLeft
              /\ saveRes' = "ok" /\ pc' = "returning" /\ i' = i
    /\ UNCHANGED <<failsInit, retryAtEntry, retryStable, procRes, fileExists, staged,
                   cleanCalls, cleanTTL, cleanClock, rmDeadline, purgeErr, clock>>
    /\ UNCHANGED <<cfgVars, fileVars, workVars, polVars, ctxVars, extVars, vipVars>>

\* The loop test fails: the function falls through to its final `return nil`.
SaveLoopExit ==
    /\ pc = "saving"
    /\ ~LoopContinues(i, cfgRetry)
    /\ saveRes' = "ok" /\ pc' = "returning"
    /\ UNCHANGED <<i, failsInit, failsLeft, saveCalls, retryAtEntry, retryStable, procRes,
                   fileExists, staged, cleanCalls, cleanTTL, cleanClock, rmDeadline,
                   purgeErr, clock>>
    /\ UNCHANGED <<cfgVars, fileVars, workVars, polVars, ctxVars, extVars, vipVars>>

\* defer cleanCacheFile(cachePath): the call runs when processPhoto returns, after
\* saveFileWithRetry has returned.
DeferredRuns_eager == pc \in {"saving", "returning"}
DeferredRuns == pc = "returning"

\* processPhoto returns what saveFileWithRetry returned; the deferred
\* cleanCacheFile(cachePath) runs. os.Remove may fail, which is only logged.
Cleanup ==
    /\ DeferredRuns
    /\ pc' = "done" /\ procRes' = saveRes
    /\ cleanCalls' = cleanCalls + 1 /\ cleanTTL' = cfgTTL /\ cleanClock' = clock
    /\ IF DelayedPurge(cfgTTL)
         THEN /\ rmDeadline' = RmFileAfter(clock, cfgTTL)
              /\ UNCHANGED <<fileExists, purgeErr>>
         ELSE /\ rmDeadline' = rmDeadline
              /\ \E removed \in BOOLEAN :
                   IF removed THEN fileExists' = FALSE /\ purgeErr' = purgeErr
                              ELSE fileExists' = fileExists /\ purgeErr' = TRUE
    /\ UNCHANGED <<i, failsInit, failsLeft, saveCalls, saveRes, retryAtEntry, retryStable,
                   staged, clock>>
    /\ UNCHANGED <<cfgVars, fileVars, workVars, polVars, ctxVars, extVars, vipVars>>

\* One second passes; a removal timer that falls due runs (its os.Remove may
\* fail too).
Tick ==
    /\ pc # "off"
    /\ clock < MaxClock
    /\ clock' = clock + 1
    /\ IF rmDeadline = clock + 1
         THEN /\ rmDeadline' = NoTimer
              /\ \E removed \in BOOLEAN :
                   IF removed THEN fileExists' = FALSE /\ purgeErr' = purgeErr
                              ELSE fileExists' = fileExists /\ purgeErr' = TRUE
         ELSE UNCHANGED <<rmDeadline, fileExists, purgeErr>>
    /\ UNCHANGED <<pc, i, failsInit, failsLeft, saveCalls, saveRes, retryAtEntry,
                   retryStable, procRes, staged, cleanCalls, cleanTTL, cleanClock>>
    /\ UNCHANGED <<cfgVars, fileVars, workVars, polVars, ctxVars, extVars, vipVars>>

\* Set(key, value) followed by ReloadConfig: viper.Unmarshal(Cfg) overwrites the
\* loaded configuration in place, at any time, with no validation.
ReloadConfig ==
    /\ pc # "off"
    /\ \E r \in RetryValues, ttl \in TTLValues :
         /\ cfgRetry' = r /\ cfgTTL' = ttl
         /\ retryStable' = (retryStable /\ (pc \in {"saving", "in_save"} => r = cfgRetry))
    /\ UNCHANGED cfgThreads
    /\ UNCHANGED <<pc, i, failsInit, failsLeft, saveCalls, saveRes, retryAtEntry, procRes,
                   fileExists, staged, cleanCalls, cleanTTL, cleanClock, rmDeadline,
                   purgeErr, clock>>
    /\ UNCHANGED <<fileVars, workVars, polVars, ctxVars, extVars, vipVars>>

Next ==
    \/ GetFile
    \/ WriteFile
    \/ SaveAttempt
    \/ SaveLoopExit
    \/ Cleanup
    \/ Tick
    \/ ReloadConfig

Spec == Init /\ [][Next]_vars

---------------------------------------------------------------------------
(* The claims about Spec *)

\* C1: when Save fails on its first k calls and then succeeds, and the retry
\* limit R >= 0 stays as configured during the call, saveFileWithRetry returns
\* success after exactly k+1 Save calls if R >= k, and an error after exactly
\* R+1 Save calls if R < k; no Save call follows its return.
C1_RetryCallCount ==
    (saveRes # "none" /\ retryStable /\ retryAtEntry >= 0) =>
        IF retryAtEntry >= failsInit
          THEN saveRes = "ok" /\ saveCalls = failsInit + 1
          ELSE saveRes = "err" /\ saveCalls = retryAtEntry + 1

C1_Witness ==
    /\ pc = "done" /\ retryStable /\ retryAtEntry = 2 /\ failsInit = 2
    /\ saveRes = "ok" /\ saveCalls = 3

\* C5: at every exit of a transfer that put a staging file on disk, whole or
\* partial, cleanCacheFile has run exactly once.
C5_CleanupOnEveryExit ==
    (pc = "done" /\ staged) => cleanCalls = 1

\* C9 as stated: with TTL = 0 the staging file is absent once cleanCacheFile has
\* returned; with TTL = N > 0 it exists at the return and is absent once N seconds
\* have passed.
C9_AsStated ==
    /\ (cleanCalls = 1 /\ cleanTTL = 0) => ~fileExists
    /\ (cleanCalls = 1 /\ cleanTTL > 0 /\ clock = cleanClock) => fileExists
    /\ (cleanCalls = 1 /\ cleanTTL > 0 /\ clock >= cleanClock + cleanTTL) => ~fileExists

\* C9 amended: the same, except that a removal os.Remove refuses is only logged and
\* leaves the file in place.
C9_PurgeUnlessRemoveFails ==
    /\ (cleanCalls = 1 /\ cleanTTL = 0) => (~fileExists \/ purgeErr)
    /\ (cleanCalls = 1 /\ cleanTTL > 0 /\ clock = cleanClock) => fileExists
    /\ (cleanCalls = 1 /\ cleanTTL > 0 /\ clock >= cleanClock + cleanTTL)
          => (~fileExists \/ purgeErr)

C9_Witness ==
    /\ cleanCalls = 1 /\ cleanTTL = 2 /\ clock = cleanClock + 2
    /\ ~fileExists /\ ~purgeErr

\* C11: when the download step fails (UploadGetFile fails, its result has an
\* unexpected type, or the staging write fails), processPhoto returns the error,
\* Save is never called, and no staging file remains on disk unless its removal
\* is scheduled.
C11_DownloadFailureLeavesNothing ==
    (pc = "done" /\ saveRes = "none") =>
        /\ procRes = "err"
        /\ saveCalls = 0
        /\ (~fileExists \/ rmDeadline # NoTimer)

\* C16: Save is called only once the staging file has been written, never after
\* a failed download step, and until saveFileWithRetry has returned the staged
\* file is on disk, cleanCacheFile has not run and no removal is scheduled.
C16_SaveBetweenStageAndCleanup ==
    /\ saveCalls > 0 => (staged /\ pc \in {"saving", "returning", "done"})
    /\ (pc = "done" /\ saveRes = "none") => saveCalls = 0
    /\ saveRes = "none" =>
          (cleanCalls = 0 /\ rmDeadline = NoTimer /\ (staged => fileExists))

C16_Witness ==
    /\ pc = "saving" /\ saveCalls = 2 /\ saveRes = "none"
    /\ fileExists /\ cleanCalls = 0 /\ rmDeadline = NoTimer

\* C19: saveFileWithRetry returns nil only if a Save call returned success (the
\* stub's first success is its call number failsInit + 1), whatever retry limit
\* ReloadConfig has installed.
C19_NilOnlyAfterSuccess ==
    saveRes = "ok" => saveCalls > failsInit

---------------------------------------------------------------------------
(* ParallelismPolicy: getProgressUpdateCount and getTaskThreads *)

getProgressUpdateCount_misordered(fileSize) ==
    IF fileSize > 1024 * 1024 * 200 THEN 10
    ELSE IF fileSize > 1024 * 1024 * 500 THEN 20
    ELSE IF fileSize > 1024 * 1024 * 1000 THEN 50
    ELSE 5
getProgressUpdateCount(fileSize) ==
    IF fileSize > 1024 * 1024 * 1000 THEN 50
    ELSE IF fileSize > 1024 * 1024 * 500 THEN 20
    ELSE IF fileSize > 1024 * 1024 * 200 THEN 10
    ELSE 5

\* Reads config.Cfg.Threads.
getTaskThreads(fileSize) ==
    IF fileSize > 1024 * 1024 * 100 THEN cfgThreads
    ELSE IF fileSize > 1024 * 1024 * 50 THEN cfgThreads \div 2
    ELSE 1

---------------------------------------------------------------------------
(* buildProgressCallback *)

\* <<floor(100 * bytesRead / contentLength), whether the quotient is whole>>, for
\* contentLength > 0, computed without passing 2^31.
PctParts(bytesRead, contentLength) ==
    LET q   == bytesRead \div contentLength
        rem == bytesRead % contentLength
        a   == contentLength \div 100
        r   == contentLength % 100
        p0  == rem \div a
        lhs == p0 * r
        rhs == 100 * (rem - p0 * a)
    IN  IF rem <= 20000000
          THEN <<100 * q + (100 * rem) \div contentLength, (100 * rem) % contentLength = 0>>
          ELSE IF lhs <= rhs THEN <<100 * q + p0, lhs = rhs>>
                             ELSE <<100 * q + p0 - 1, FALSE>>

\* The whole percentages k for which float64(k)/100*100 falls just below k, so
\* that int() truncates to k - 1.
FloatShortfall == {29, 57, 58, 113, 114, 115, 116}

\* progress := float64(bytesRead) / float64(contentLength) * 100
\* progressInt := int(progress)
ProgressInt(bytesRead, contentLength) ==
    LET pp == PctParts(bytesRead, contentLength)
    IN  IF pp[2] /\ pp[1] \in FloatShortfall THEN pp[1] - 1 ELSE pp[1]

\* task.File.FileSize < 1024*1024*50
BelowProgressFloor_off(fileSize) == fileSize < 1024 * 1024 * 50 - 1
BelowProgressFloor(fileSize) == fileSize < 1024 * 1024 * 50

\* The negation of the early return: the message is edited.
ShouldEmit(fileSize, bytesRead, contentLength, updateCount) ==
    ~ (\/ BelowProgressFloor(fileSize)
       \/ ProgressInt(bytesRead, contentLength) = 0
       \/ ProgressInt(bytesRead, contentLength) % (100 \div updateCount) # 0)

\* The download step hands NewTaskLocalFile the task's file size and the callback
\* built with getProgressUpdateCount of that size.
TaskUpdateCount == getProgressUpdateCount(size)

\* t.progressCallback(bytesRead, t.size)
InvokeCallback(bytesRead) ==
    /\ cbCalls' = cbCalls + 1
    /\ IF ShouldEmit(size, bytesRead, size, TaskUpdateCount)
         THEN /\ emitted' = emitted + 1
              /\ lastEmit' = bytesRead
              /\ offTick' = (offTick \/ LET k == PctParts(bytesRead, size)[1]
                                        IN  k = 0 \/ k % (100 \div TaskUpdateCount) # 0)
              /\ nonMono' = (nonMono \/ (lastEmit >= 0 /\
                                ProgressInt(bytesRead, size) < ProgressInt(lastEmit, size)))
         ELSE UNCHANGED <<emitted, lastEmit, offTick, nonMono>>

---------------------------------------------------------------------------
(* TaskLocalFile *)

\* callbackInterval = fileSize / 100; if callbackInterval == 0 { callbackInterval = 1 }
CallbackInterval(fileSize) ==
    IF fileSize \div 100 = 0 THEN 1 ELSE fileSize \div 100

\* t.done += int64(n)
AddDone(d, n) == d + n

\* t.progressCallback != nil && t.done >= t.nextCallbackAt
CallbackDue_gt(cb, d, next) == cb /\ d > next
CallbackDue(cb, d, next) == cb /\ d >= next

\* t.nextCallbackAt += t.callbackInterval
AdvanceThreshold(next, interval) == next + interval

\* The transfers explored: a declared size and the chunk sizes written into it.
FileCases ==
    { [size |-> 0,                 chunks |-> {0, 1}],
      [size |-> 150,               chunks |-> {1, 2}],
      [size |-> 250,               chunks |-> {0, 1, 3}],
      [size |-> 50 * MiB - 1,      chunks |-> {10 * MiB}],
      [size |-> 50 * MiB,          chunks |-> {MiB \div 4, 10 * MiB}],
      [size |-> 600 * MiB,         chunks |-> {30 * MiB}],
      [size |-> 1100000000,        chunks |-> {11000000}] }

\* NewTaskLocalFile(filePath, fileSize, progressCallback)
NewTaskLocalFile(case) ==
    /\ size = case.size /\ chunks = case.chunks
    /\ hasCallback \in BOOLEAN
    /\ done = 0
    /\ callbackInterval = CallbackInterval(case.size)
    /\ nextCallbackAt = CallbackInterval(case.size)
    /\ totalWritten = 0 /\ maxChunk = 0 /\ writeErrs = 0
    /\ cbCalls = 0 /\ emitted = 0 /\ lastEmit = -1 /\ offTick = FALSE /\ nonMono = FALSE

InitFile ==
    /\ ConfigOff /\ PipeOff /\ WorkOff /\ PolOff /\ CtxOff /\ ExtOff /\ VipOff
    /\ \E case \in FileCases : NewTaskLocalFile(case)

\* n, err := t.file.WriteAt(p, off); if err != nil { return n, err }
ReturnsError_never(ok) == FALSE
ReturnsError(ok) == ~ok

\* WriteAt(p, off) with len(p) = n, the whole method run by one caller at a time.
\* totalWritten, maxChunk and writeErrs record what the calls were; the fields of
\* the file change only past the error return.
WriteAt ==
    /\ wpc = <<>> /\ chunks # {}
    /\ \E n \in chunks, ok \in BOOLEAN :
         /\ totalWritten + n <= size + MaxOverrun
         /\ IF ok
              THEN /\ totalWritten' = totalWritten + n
                   /\ maxChunk' = IF n > maxChunk THEN n ELSE maxChunk
                   /\ writeErrs' = writeErrs
              ELSE /\ writeErrs < MaxWriteErrs
                   /\ writeErrs' = writeErrs + 1
                   /\ UNCHANGED <<totalWritten, maxChunk>>
         /\ IF ReturnsError(ok)
              THEN UNCHANGED <<done, cbCalls, emitted, lastEmit, offTick, nonMono,
                               nextCallbackAt>>
              ELSE /\ done' = AddDone(done, n)
                   /\ IF CallbackDue(hasCallback, done', nextCallbackAt)
                        THEN /\ InvokeCallback(done')
                             /\ nextCallbackAt' = AdvanceThreshold(nextCallbackAt, callbackInterval)
                        ELSE UNCHANGED <<cbCalls, emitted, lastEmit, offTick, nonMono,
                                         nextCallbackAt>>
    /\ UNCHANGED <<size, chunks, hasCallback, callbackInterval>>
    /\ UNCHANGED <<cfgVars, pipeVars, workVars, polVars, ctxVars, extVars, vipVars>>

NextFile == WriteAt

SpecFile == InitFile /\ [][NextFile]_vars

---------------------------------------------------------------------------
(* The claims about SpecFile *)

\* C2 as stated: after successful sequential writes totalling B <= S bytes into a
\* file opened with a callback, the counter equals B and the callback has been
\* invoked exactly floor(B / interval) times.
C2_AsStated ==
    (hasCallback /\ totalWritten <= size) =>
        /\ done = totalWritten
        /\ cbCalls = totalWritten \div callbackInterval

\* C2 amended: the counter equals B; the callback has been invoked at most
\* floor(B / interval) times, and exactly that often when no chunk was larger
\* than the interval (a write fires the callback once however many thresholds it
\* passes).
C2_CounterAndCallbacks ==
    (hasCallback /\ totalWritten <= size) =>
        /\ done = totalWritten
        /\ cbCalls <= totalWritten \div callbackInterval
        /\ (maxChunk <= callbackInterval => cbCalls = totalWritten \div callbackInterval)

C2_Witness ==
    /\ hasCallback /\ size = 250 /\ totalWritten = 250 /\ maxChunk = 1
    /\ cbCalls = 125

\* C3: the callback is invoked at most once per threshold passed and at most 100
\* times over the transfer.
C3_AtMostHundredCallbacks ==
    /\ cbCalls <= done \div callbackInterval
    /\ cbCalls <= CallbackTimes

\* C7: every progress update is emitted at a floor percentage that is a positive
\* multiple of 100/U, and at most U updates are emitted, U being
\* getProgressUpdateCount of the declared size.
C7_UpdatesOnTicksAtMostU ==
    /\ ~offTick
    /\ emitted <= TaskUpdateCount

\* C8: no progress update is emitted for a file whose declared size is below
\* 50 MiB, whatever byte counts the callback is given.
C8_NoUpdateBelowFloor ==
    size < 50 * MiB => emitted = 0

C8_Witness ==
    /\ size = 50 * MiB - 1 /\ hasCallback /\ cbCalls >= 1
    /\ ProgressInt(done, size) % (100 \div TaskUpdateCount) = 0
    /\ ProgressInt(done, size) > 0
    /\ emitted = 0

\* C17: a WriteAt whose positional write returns an error leaves the counter
\* and the next threshold unchanged and invokes no callback; the counter grows
\* only by the byte counts of the writes that succeeded.
C17_FailedWriteChangesNothing ==
    [][ /\ writeErrs' # writeErrs =>
              (/\ done' = done /\ nextCallbackAt' = nextCallbackAt
               /\ cbCalls' = cbCalls /\ emitted' = emitted)
        /\ done' - done = totalWritten' - totalWritten ]_vars

C17_Witness ==
    /\ writeErrs = 1 /\ totalWritten > 0 /\ done = totalWritten
    /\ hasCallback /\ cbCalls = totalWritten \div callbackInterval /\ cbCalls > 0

---------------------------------------------------------------------------
(* SpecConc: parallel download workers inside WriteAt *)

Workers == 1 .. NumWorkers

ConcCases ==
    { [size |-> 4,        chunks |-> {1, 2}],
      [size |-> 50 * MiB, chunks |-> {10 * MiB, 20 * MiB}] }

InitConc ==
    /\ ConfigOff /\ PipeOff /\ PolOff /\ CtxOff /\ ExtOff /\ VipOff
    /\ \E case \in ConcCases : NewTaskLocalFile(case)
    /\ wpc = [w \in Workers |-> "idle"]
    /\ wn = [w \in Workers |-> 0]
    /\ wtmp = [w \in Workers |-> 0]

fileFrame == <<size, chunks, hasCallback, callbackInterval>>
cbFrame == <<cbCalls, emitted, lastEmit, offTick, nonMono>>

\* n, err := t.file.WriteAt(p, off); if err != nil { return n, err }
WFileWrite(w) ==
    /\ wpc # <<>> /\ wpc[w] = "idle"
    /\ \E n \in chunks, ok \in BOOLEAN :
         /\ totalWritten + n <= size + MaxOverrun
         /\ IF ok
              THEN /\ totalWritten' = totalWritten + n
                   /\ maxChunk' = IF n > maxChunk THEN n ELSE maxChunk
                   /\ wn' = [wn EXCEPT ![w] = n]
                   /\ wpc' = [wpc EXCEPT ![w] = "load"]
                   /\ writeErrs' = writeErrs
              ELSE /\ writeErrs < MaxWriteErrs
                   /\ writeErrs' = writeErrs + 1
                   /\ UNCHANGED <<totalWritten, maxChunk, wn, wpc>>
    /\ UNCHANGED <<done, nextCallbackAt, wtmp, fileFrame, cbFrame>>
    /\ UNCHANGED <<cfgVars, pipeVars, polVars, ctxVars, extVars, vipVars>>

\* t.done += int64(n), the read of t.done
WLoadDone(w) ==
    /\ wpc # <<>> /\ wpc[w] = "load"
    /\ wtmp' = [wtmp EXCEPT ![w] = done]
    /\ wpc' = [wpc EXCEPT ![w] = "store"]
    /\ UNCHANGED <<done, nextCallbackAt, totalWritten, maxChunk, writeErrs, wn,
                   fileFrame, cbFrame>>
    /\ UNCHANGED <<cfgVars, pipeVars, polVars, ctxVars, extVars, vipVars>>

\* t.done += int64(n), the write of t.done
WStoreDone(w) ==
    /\ wpc # <<>> /\ wpc[w] = "store"
    /\ done' = AddDone(wtmp[w], wn[w])
    /\ wpc' = [wpc EXCEPT ![w] = "check"]
    /\ UNCHANGED <<nextCallbackAt, totalWritten, maxChunk, writeErrs, wn, wtmp,
                   fileFrame, cbFrame>>
    /\ UNCHANGED <<cfgVars, pipeVars, polVars, ctxVars, extVars, vipVars>>

\* if t.progressCallback != nil && t.done >= t.nextCallbackAt
WCheck(w) ==
    /\ wpc # <<>> /\ wpc[w] = "check"
    /\ wpc' = [wpc EXCEPT ![w] =
                 IF CallbackDue(hasCallback, done, nextCallbackAt) THEN "call" ELSE "idle"]
    /\ UNCHANGED <<done, nextCallbackAt, totalWritten, maxChunk, writeErrs, wn, wtmp,
                   fileFrame, cbFrame>>
    /\ UNCHANGED <<cfgVars, pipeVars, polVars, ctxVars, extVars, vipVars>>

\* t.progressCallback(t.done, t.size)
WCall(w) ==
    /\ wpc # <<>> /\ wpc[w] = "call"
    /\ InvokeCallback(done)
    /\ wpc' = [wpc EXCEPT ![w] = "advload"]
    /\ UNCHANGED <<done, nextCallbackAt, totalWritten, maxChunk, writeErrs, wn, wtmp,
                   fileFrame>>
    /\ UNCHANGED <<cfgVars, pipeVars, polVars, ctxVars, extVars, vipVars>>

\* t.nextCallbackAt += t.callbackInterval, the read of t.nextCallbackAt
WLoadNext(w) ==
    /\ wpc # <<>> /\ wpc[w] = "advload"
    /\ wtmp' = [wtmp EXCEPT ![w] = nextCallbackAt]
    /\ wpc' = [wpc EXCEPT ![w] = "advstore"]
    /\ UNCHANGED <<done, nextCallbackAt, totalWritten, maxChunk, writeErrs, wn,
                   fileFrame, cbFrame>>
    /\ UNCHANGED <<cfgVars, pipeVars, polVars, ctxVars, extVars, vipVars>>

\* t.nextCallbackAt += t.callbackInterval, the write; return n, nil
WStoreNext(w) ==
    /\ wpc # <<>> /\ wpc[w] = "advstore"
    /\ nextCallbackAt' = AdvanceThreshold(wtmp[w], callbackInterval)
    /\ wpc' = [wpc EXCEPT ![w] = "idle"]
    /\ UNCHANGED <<done, totalWritten, maxChunk, writeErrs, wn, wtmp, fileFrame, cbFrame>>
    /\ UNCHANGED <<cfgVars, pipeVars, polVars, ctxVars, extVars, vipVars>>

NextConc ==
    \E w \in Workers :
        \/ WFileWrite(w)
        \/ WLoadDone(w)
        \/ WStoreDone(w)
        \/ WCheck(w)
        \/ WCall(w)
        \/ WLoadNext(w)
        \/ WStoreNext(w)

SpecConc == InitConc /\ [][NextConc]_vars

AllReturned == \A w \in Workers : wpc[w] = "idle"

---------------------------------------------------------------------------
(* The claims about SpecConc *)

\* C4: concurrent WriteAt calls take effect one at a time: once all have
\* returned, the counter equals the sum of the bytes written and every callback
\* invocation has advanced the threshold by one interval (no threshold fired
\* twice).
C4_WritesAtomic ==
    AllReturned =>
        /\ done = totalWritten
        /\ (hasCallback => nextCallbackAt = (cbCalls + 1) * callbackInterval)

\* C10: no emitted progress update carries a lower percentage than the update
\* emitted before it, in any interleaving of the workers.
C10_UpdatesIncrease ==
    ~nonMono

\* C13: the cumulative counter never decreases from one state to the next, in
\* any interleaving of the workers' WriteAt calls.
C13_CounterNeverDecreases ==
    [][done' >= done]_vars

---------------------------------------------------------------------------
(* SpecPolicy: the policy functions applied to pairs of file sizes *)

PolicySizes ==
    { 0, 50 * MiB, 50 * MiB + 1, 100 * MiB, 100 * MiB + 1, 200 * MiB, 200 * MiB + 1,
      500 * MiB, 500 * MiB + 1, 1000 * MiB, 1000 * MiB + 1 }

InitPolicy ==
    /\ cfgRetry = 1 /\ cfgTTL = 0 /\ cfgThreads \in ThreadCaps
    /\ PipeOff /\ FileOff /\ WorkOff /\ CtxOff /\ ExtOff /\ VipOff
    /\ sizeA \in PolicySizes /\ sizeB \in PolicySizes
    /\ threadsA = NotComputed /\ threadsB = NotComputed
    /\ countA = NotComputed /\ countB = NotComputed

ComputeThreads ==
    /\ pc = "off" /\ chunks = {} /\ threadsA = NotComputed
    /\ threadsA' = getTaskThreads(sizeA)
    /\ threadsB' = getTaskThreads(sizeB)
    /\ UNCHANGED <<sizeA, sizeB, countA, countB>>
    /\ UNCHANGED <<cfgVars, pipeVars, fileVars, workVars, ctxVars, extVars, vipVars>>

ComputeUpdateCount ==
    /\ pc = "off" /\ chunks = {} /\ countA = NotComputed
    /\ countA' = getProgressUpdateCount(sizeA)
    /\ countB' = getProgressUpdateCount(sizeB)
    /\ UNCHANGED <<sizeA, sizeB, threadsA, threadsB>>
    /\ UNCHANGED <<cfgVars, pipeVars, fileVars, workVars, ctxVars, extVars, vipVars>>

NextPolicy ==
    \/ ComputeThreads
    \/ ComputeUpdateCount

SpecPolicy == InitPolicy /\ [][NextPolicy]_vars

\* C6: getTaskThreads is at least 1 and non-decreasing in the file size, for
\* every configured thread cap.
C6_ThreadsPositiveMonotone ==
    threadsA # NotComputed =>
        /\ threadsA >= 1
        /\ (sizeA <= sizeB => threadsA <= threadsB)

\* C14: getTaskThreads returns the cap M above 100 MiB, M/2 clamped to at least
\* 1 above 50 MiB and up to 100 MiB, and 1 up to 50 MiB, boundaries included.
C14_ThreadsBySize ==
    threadsA # NotComputed =>
        threadsA = IF sizeA > 100 * MiB THEN cfgThreads
                   ELSE IF sizeA > 50 * MiB
                          THEN (IF cfgThreads \div 2 >= 1 THEN cfgThreads \div 2 ELSE 1)
                   ELSE 1

\* C15: getProgressUpdateCount is 50 above 1000 MiB, 20 above 500 MiB up to
\* 1000 MiB, 10 above 200 MiB up to 500 MiB and 5 otherwise; it is one of
\* 5, 10, 20, 50, divides 100, and does not decrease as the size grows.
C15_UpdateCountBySize ==
    countA # NotComputed =>
        /\ sizeA > 1000 * MiB => countA = 50
        /\ (sizeA > 500 * MiB /\ sizeA <= 1000 * MiB) => countA = 20
        /\ (sizeA > 200 * MiB /\ sizeA <= 500 * MiB) => countA = 10
        /\ sizeA <= 200 * MiB => countA = 5
        /\ countA \in {5, 10, 20, 50}
        /\ 100 % countA = 0 /\ 100 \div countA >= 1
        /\ sizeA <= sizeB => countA <= countB

C15_Witness ==
    /\ sizeA = 1000 * MiB /\ countA = 20
    /\ sizeB = 1000 * MiB + 1 /\ countB = 50

---------------------------------------------------------------------------
(* SpecCancel: a transfer whose context may be cancelled *)

\* taskStorage.Save(task.Ctx, ...) under a cancelled context is aborted and
\* returns the context's error.
SaveAborted == cancelled

InitCancel ==
    /\ InitConfig
    /\ pc = "idle" /\ i = 0
    /\ failsInit \in 0 .. MaxFails /\ failsLeft = failsInit
    /\ saveCalls = 0 /\ saveRes = "none" /\ retryAtEntry = 0 /\ retryStable = TRUE
    /\ procRes = "none" /\ fileExists = FALSE /\ staged = FALSE
    /\ cleanCalls = 0 /\ cleanTTL = 0 /\ cleanClock = 0 /\ rmDeadline = NoTimer
    /\ purgeErr = FALSE /\ clock = 0
    /\ FileOff /\ WorkOff /\ PolOff /\ CtxOff /\ ExtOff /\ VipOff

\* The task's context is cancelled (the "cancel task" button), at any moment
\* before the transfer has returned.
Cancel ==
    /\ pc \in {"idle", "fetched", "saving", "in_save", "returning"}
    /\ ~cancelled
    /\ cancelled' = TRUE
    /\ UNCHANGED <<lateCalls, cfgVars, pipeVars, fileVars, workVars, polVars, extVars, vipVars>>

\* The loop test passes and taskStorage.Save is called. lateCalls counts the
\* calls started with a context that is already cancelled.
SaveCall ==
    /\ pc = "saving"
    /\ LoopContinues(i, cfgRetry)
    /\ pc' = "in_save"
    /\ saveCalls' = saveCalls + 1
    /\ lateCalls' = IF cancelled THEN lateCalls + 1 ELSE lateCalls
    /\ UNCHANGED <<i, failsInit, failsLeft, saveRes, retryAtEntry, retryStable, procRes,
                   fileExists, staged, cleanCalls, cleanTTL, cleanClock, rmDeadline,
                   purgeErr, clock>>
    /\ UNCHANGED <<cancelled, cfgVars, fileVars, workVars, polVars, extVars, vipVars>>

\* Save returns, and the loop returns, or logs the error and continues.
SaveReturn ==
    /\ pc = "in_save"
    /\ IF SaveAborted \/ SaveFails
         THEN /\ failsLeft' = IF SaveAborted THEN failsLeft ELSE failsLeft - 1
              /\ IF LastAttempt(i, cfgRetry)
                   THEN saveRes' = "err" /\ pc' = "returning" /\ i' = i
                   ELSE saveRes' = saveRes /\ pc' = "saving" /\ i' = i + 1
         ELSE /\ failsLeft' = failsLeft
              /\ saveRes' = "ok" /\ pc' = "returning" /\ i' = i
    /\ UNCHANGED <<failsInit, saveCalls, retryAtEntry, retryStable, procRes, fileExists,
                   staged, cleanCalls, cleanTTL, cleanClock, rmDeadline, purgeErr, clock>>
    /\ UNCHANGED <<cfgVars, fileVars, workVars, polVars, ctxVars, extVars, vipVars>>

NextCancel ==
    \/ GetFile
    \/ WriteFile
    \/ SaveCall
    \/ SaveReturn
    \/ SaveLoopExit
    \/ Cleanup
    \/ Cancel
    \/ ReloadConfig

SpecCancel == InitCancel /\ [][NextCancel]_vars

\* C12: once the context of a transfer is cancelled while its save is pending
\* (a Save call had started before the cancellation), the retry loop starts no
\* further Save attempt, and cleanCacheFile still runs for the staged file
\* when the transfer returns.
C12_CancelStopsRetries ==
    /\ lateCalls > 0 => saveCalls = lateCalls
    /\ (pc = "done" /\ cancelled /\ saveCalls > 0) => cleanCalls = 1

---------------------------------------------------------------------------
(* SpecExt: fixTaskFileExt *)

MaxNameLen == 3

\* File names and storage paths are strings over a letter, the dot and the slash.
NameChars == {"a", ".", "/"}
Names == UNION {[1 .. n -> NameChars] : n \in 0 .. MaxNameLen}
StoragePaths == {<<"a">>, <<"a", "/", "a">>, <<"a", ".", "a">>}

\* What mimetype.DetectFile(localFilePath) returns for the staged file: an
\* error, or a MIME type whose Extension() may be empty.
DetectedExts == {<<>>, <<".", "a">>}
Sniffs == {[err |-> TRUE, ext |-> <<>>]} \cup {[err |-> FALSE, ext |-> e] : e \in DetectedExts}

\* path.Ext: the suffix beginning at the final dot in the final slash-separated
\* element of the path, empty if there is no dot. The scan runs backwards from
\* the end and stops at a slash.
RECURSIVE ExtFrom(_, _)
ExtFrom(p, k) ==
    IF k < 1 \/ p[k] = "/" THEN <<>>
    ELSE IF p[k] = "." THEN SubSeq(p, k, Len(p))
    ELSE ExtFrom(p, k - 1)

Ext(p) == ExtFrom(p, Len(p))

\* task.FileName()
FileName == fileName

\* if path.Ext(task.FileName()) == ""
NoExt_always(name) == TRUE
NoExt(name) == Ext(name) = <<>>

InitExt ==
    /\ fileName \in Names /\ storagePath \in StoragePaths /\ taskSize \in {0, 50 * MiB}
    /\ origTask = [name |-> fileName, path |-> storagePath, size |-> taskSize]
    /\ sniff \in Sniffs
    /\ fixed = FALSE
    /\ ConfigOff /\ PipeOff /\ FileOff /\ WorkOff /\ PolOff /\ CtxOff /\ VipOff

fixTaskFileExt ==
    /\ ~fixed
    /\ fixed' = TRUE
    /\ IF NoExt(FileName)
         THEN IF sniff.err
                THEN UNCHANGED <<fileName, storagePath>>
                ELSE /\ fileName' = FileName \o sniff.ext
                     /\ storagePath' = storagePath \o sniff.ext
         ELSE UNCHANGED <<fileName, storagePath>>
    /\ UNCHANGED <<taskSize, origTask, sniff>>
    /\ UNCHANGED <<cfgVars, pipeVars, fileVars, workVars, polVars, ctxVars, vipVars>>

NextExt == fixTaskFileExt

SpecExt == InitExt /\ [][NextExt]_vars

\* C18: fixTaskFileExt leaves the file name and the storage path as they were
\* when the file name has an extension (a dot in its last slash-separated
\* element) or MIME detection fails; otherwise it appends the detected
\* extension to both; the rest of the task is as it was.
C18_ExtAppendedToBoth ==
    fixed =>
        LET name == origTask.name
            hasExt == \E k \in 1 .. Len(name) :
                         /\ name[k] = "."
                         /\ \A j \in k + 1 .. Len(name) : name[j] # "/"
        IN  /\ (hasExt \/ sniff.err) =>
                  (fileName = name /\ storagePath = origTask.path)
            /\ ~(hasExt \/ sniff.err) =>
                  (/\ fileName = name \o sniff.ext
                   /\ storagePath = origTask.path \o sniff.ext)
            /\ taskSize = origTask.size

C18_Witness ==
    /\ fixed /\ origTask.name = <<".", "/", "a">> /\ origTask.path = <<"a", ".", "a">>
    /\ fileName = <<".", "/", "a", ".", "a">>
    /\ storagePath = <<"a", ".", "a", ".", "a">>

---------------------------------------------------------------------------
(* SpecConfig: config.Init, Set and ReloadConfig *)

MaxWorkers == 2

\* Values a config file or Set can carry for "workers".
WorkerValues == 0 .. MaxWorkers

\* The other half of Init's test: Cfg.Workers < 1 is refused.
WorkersValid(workers) == ~(workers < 1)

\* Before config.Init: nothing is loaded.
InitCfg ==
    /\ cfgState = "fresh"
    /\ vipWorkers = 0 /\ vipRetry = 0 /\ cfgWorkers = 0
    /\ cfgRetry = 0 /\ cfgTTL = 0 /\ cfgThreads = 1
    /\ PipeOff /\ FileOff /\ WorkOff /\ PolOff /\ CtxOff /\ ExtOff

\* config.Init: defaults, the config file (w and r are what it holds for workers
\* and retry, the defaults if it was just created), Unmarshal into Cfg, the
\* storage configurations, and the test of Workers and Retry.
ConfigInit ==
    /\ cfgState = "fresh"
    /\ \E w \in WorkerValues, r \in RetryValues,
          outcome \in {"ok", "save_failed", "storages_failed"} :
         IF outcome = "save_failed"
           THEN /\ cfgState' = "init_failed"
                /\ UNCHANGED <<vipWorkers, vipRetry, cfgWorkers, cfgRetry>>
           ELSE /\ vipWorkers' = w /\ vipRetry' = r
                /\ cfgWorkers' = w /\ cfgRetry' = r
                /\ cfgState' = IF outcome = "ok" /\ WorkersValid(w) /\ InitValid(r)
                                  THEN "loaded" ELSE "init_failed"
    /\ UNCHANGED <<cfgTTL, cfgThreads>>
    /\ UNCHANGED <<pipeVars, fileVars, workVars, polVars, ctxVars, extVars>>

\* Set(key, value): viper.Set, an override that Cfg does not see yet.
Set ==
    /\ cfgState = "loaded"
    /\ \E key \in {"workers", "retry"} :
         IF key = "workers"
           THEN \E v \in WorkerValues : vipWorkers' = v /\ vipRetry' = vipRetry
           ELSE \E v \in RetryValues : vipRetry' = v /\ vipWorkers' = vipWorkers
    /\ UNCHANGED <<cfgWorkers, cfgState, cfgVars>>
    /\ UNCHANGED <<pipeVars, fileVars, workVars, polVars, ctxVars, extVars>>

\* ReloadConfig: WriteConfig, ReadInConfig, Unmarshal(Cfg). An error of the first
\* two returns before Cfg is touched; Unmarshal copies viper's settings into Cfg
\* and nothing tests them.
ConfigReload ==
    /\ cfgState = "loaded"
    /\ \E outcome \in {"ok", "write_failed", "read_failed"} :
         IF outcome = "ok"
           THEN cfgWorkers' = vipWorkers /\ cfgRetry' = vipRetry
           ELSE UNCHANGED <<cfgWorkers, cfgRetry>>
    /\ UNCHANGED <<vipWorkers, vipRetry, cfgState, cfgTTL, cfgThreads>>
    /\ UNCHANGED <<pipeVars, fileVars, workVars, polVars, ctxVars, extVars>>

NextConfig ==
    \/ ConfigInit
    \/ Set
    \/ ConfigReload

SpecConfig == InitCfg /\ [][NextConfig]_vars

\* C20: in every state after Init has returned without error, whatever Set
\* and ReloadConfig calls followed, the loaded configuration has Workers >= 1
\* and Retry >= 1.
C20_LoadedConfigValid ==
    cfgState = "loaded" => (cfgWorkers >= 1 /\ cfgRetry >= 1)

===========================================================================
